---- MODULE Spec2Model ----
(***************************************************************************)
(* Lease lifecycle of casa-viva: the Lease document (lease.model.js) and   *)
(* the handlers of lease.controller.js that the lease routes expose.       *)
(*                                                                         *)
(* lease is the document the requests address.  Free text, ip/user-agent   *)
(* strings and the application sub-record are left out; messages are       *)
(* counted, and the count stops at MaxMessages; a date is a day number.    *)
(* Every handler is one action: it loads the document, runs its checks in  *)
(* the order of the code, mutates the loaded copy and saves it (schema     *)
(* validation, then the pre-save hook).  A handler's outcome is a pair:    *)
(* the result kind and the document it leaves persisted.  A refused        *)
(* request throws before save(), persists nothing and is no step; its      *)
(* outcome is still defined, so properties can speak about refusals.       *)
(*                                                                         *)
(* Spec        one lease, every routed handler, the clock                  *)
(* SpecConc    signLease requests run as separate load / upload / save     *)
(*             steps, so that two requests can interleave                  *)
(* SpecTenancy the handlers that take a lease to active and those of       *)
(*             notices, renewal and move-out                               *)
(* SpecDeposit the handlers that take a lease to expired, cancelled or the *)
(*             trash, the payment capability that marks the deposit paid   *)
(*             and held, and processDepositReturn                          *)
(* SpecDepositConc  processDepositReturn requests run as separate load and *)
(*             save steps                                                  *)
(* SpecLegacy  the application phase with approveRequest, which the       *)
(*             controller exports and no route mounts                      *)
(* SpecPair    several lease documents of one (property, tenant) pair in   *)
(*             pair, with createLease, cancelLease, deleteLease and        *)
(*             restoreLease                                                *)
(***************************************************************************)
EXTENDS Integers, Sequences, FiniteSets, TLC

VARIABLES lease, now, reqs, pair

vars == <<lease, now, reqs, pair>>

\* ---------------------------------------------------------------- bounds
MaxTime == 2
MaxHistory == 5
MaxMessages == 1
MaxChanges == 1
MaxNotices == 1
MaxReqs == 2
MaxLeases == 3

\* ------------------------------------------------------ program constants
RenewalWindowDays == 60
YearDays == 365
Null == 0 - 1

Users == {"landlord", "tenant", "other"}
Parties == {"landlord", "tenant"}

StatusEnum ==
  {"pending_request", "under_review", "approved", "rejected", "draft",
   "sent_to_tenant", "changes_requested", "sent_to_landlord",
   "signed_by_landlord", "signed_by_tenant", "fully_executed", "active",
   "renewal_pending", "notice_given", "move_out_scheduled", "cancelled",
   "expired", "terminated"}

DepositStatusEnum == {"pending", "paid", "held", "returned", "partially_returned"}
TransactionTypeEnum == {"deposit", "return", "deduction"}
SignatureTypeEnum == {"draw", "type", "upload"}

\* signature modes a request may carry: a valid one and one the schema rejects
SignModes == {"draw", "scribble"}

\* a signature slot; signedAt tells whether the timestamp is set
EmptySlot == [signedAt |-> FALSE, signatureType |-> "none"]

\* the document before Lease.create has run
NoLease ==
  [status |-> "none", landlord |-> "none", tenant |-> "none", property |-> "none",
   rentAmount |-> Null, securityDeposit |-> 0, startDate |-> Null, endDate |-> Null,
   depositStatus |-> "pending", depositTransactions |-> <<>>,
   statusHistory |-> <<>>, messages |-> 0, requestedChanges |-> <<>>,
   signatures |-> [landlord |-> EmptySlot, tenant |-> EmptySlot],
   isLocked |-> FALSE, isDeleted |-> FALSE, moveInDate |-> Null,
   moveIn |-> [scheduledAt |-> Null, signedByLandlord |-> FALSE, signedByTenant |-> FALSE],
   moveOut |-> [scheduledAt |-> Null],
   notices |-> <<>>, renewal |-> "not_due", addenda |-> 0]

\* ------------------------------------------------------------ persistence
Signed(d, role) == d.signatures[role].signedAt

\* a variant of HasRenewalNotice that looks only at open notices; C22 tells it
\* from HasRenewalNotice
HasOpenRenewalNotice(d) ==
  \E i \in 1..Len(d.notices) : d.notices[i].type = "renewal" /\ ~d.notices[i].acknowledged

HasRenewalNotice(d) == \E i \in 1..Len(d.notices) : d.notices[i].type = "renewal"

\* a variant of PreSave whose expiry does not test the status and records the
\* change in the history; C21 tells it from PreSave
PreSaveExpireAgain(d) ==
  IF d.endDate # Null /\ now > d.endDate /\ d.status \in {"active", "expired"}
  THEN [d EXCEPT !.status = "expired", !.statusHistory = Append(@, "expired")]
  ELSE d

\* leaseSchema.pre("save")
PreSave(d) ==
  LET d1 == IF d.endDate # Null /\ now > d.endDate /\ d.status = "active"
            THEN [d EXCEPT !.status = "expired"] ELSE d
      d2 == IF d1.moveInDate # Null /\ now >= d1.moveInDate /\ d1.status = "fully_executed"
            THEN [d1 EXCEPT !.status = "active"] ELSE d1
      d3 == IF /\ d2.endDate # Null
               /\ now >= d2.endDate - RenewalWindowDays
               /\ d2.status = "active"
               /\ ~HasRenewalNotice(d2)
            THEN [d2 EXCEPT !.notices = Append(@, [type |-> "renewal", reason |-> "Lease renewal notice",
                                                acknowledged |-> FALSE]),
                            !.renewal = "pending"]
            ELSE d2
  IN d3

\* schema validation run by save(): enums and minima of lease.model.js
Valid(d) ==
  /\ d.status \in StatusEnum
  /\ d.depositStatus \in DepositStatusEnum
  /\ \A i \in 1..Len(d.depositTransactions) : d.depositTransactions[i].type \in TransactionTypeEnum
  /\ \A r \in Parties : Signed(d, r) => d.signatures[r].signatureType \in SignatureTypeEnum
  /\ d.rentAmount = Null \/ d.rentAmount >= 0
  /\ d.securityDeposit = Null \/ d.securityDeposit >= 0

Fail(kind) == [res |-> kind, doc |-> lease]

\* lease.save(): validation, then the pre-save hook, then the write
Save(d) ==
  IF Valid(d) THEN [res |-> "ok", doc |-> PreSave(d)]
  ELSE Fail("ValidationError")

WithinBounds(d) ==
  /\ Len(d.statusHistory) <= MaxHistory
  /\ Len(d.requestedChanges) <= MaxChanges
  /\ Len(d.notices) <= MaxNotices

\* a variant of PushStatus that starts the history over; C8 tells it from PushStatus
PushStatusReset(d, s) == [d EXCEPT !.status = s, !.statusHistory = <<s>>]

\* lease.status = s; lease.statusHistory.push({ status: s, ... })
PushStatus(d, s) == [d EXCEPT !.status = s, !.statusHistory = Append(@, s)]

\* lease.messages.push(...): one more message, counted up to MaxMessages
PushMessage(d) == [d EXCEPT !.messages = IF @ < MaxMessages THEN @ + 1 ELSE @]

\* a variant of Found that also finds a lease in the trash; C30 tells it from
\* Found
FoundInTrash(d) == d.status # "none"

\* the part of every query that finds the document: it exists, isDeleted: false
Found(d) == d.status # "none" /\ ~d.isDeleted

\* one request, handled start to end; a refused request persists nothing and is
\* no step
Handle(r) ==
  /\ r.res = "ok"
  /\ WithinBounds(r.doc)
  /\ lease' = r.doc
  /\ UNCHANGED <<now, reqs, pair>>

\* ------------------------------------------------------------- createLease
\* the documents of the (property, tenant) pair: the one the requests address
\* and the others
PairLeases == <<lease>> \o pair

\* the query of the duplicate check
ActiveRequest(d) ==
  d.status \notin {"none", "cancelled", "expired", "rejected"} /\ ~d.isDeleted

\* a variant of NewLease that leaves the landlord reference out; C31 tells it
\* from NewLease
NewLeaseNoLandlord(u, price) ==
  [NoLease EXCEPT !.tenant = u, !.property = "P", !.status = "pending_request",
                  !.rentAmount = price, !.statusHistory = <<"pending_request">>]

NewLease(u, price) ==
  [NoLease EXCEPT !.landlord = "landlord", !.tenant = u, !.property = "P",
                  !.status = "pending_request",
                  !.rentAmount = price,
                  !.statusHistory = <<"pending_request">>]

\* a variant of createLeaseResult without the duplicate check; C12 tells it from
\* createLeaseResult
createLeaseResultAnyway(u, pstatus, price) ==
  IF pstatus = "missing" THEN Fail("NotFound")
  ELSE IF pstatus # "active" THEN Fail("NotAvailable")
  ELSE Save(NewLease(u, price))

createLeaseResult(u, pstatus, price) ==
  IF pstatus = "missing" THEN Fail("NotFound")
  ELSE IF pstatus # "active" THEN Fail("NotAvailable")
  ELSE IF \E i \in 1..Len(PairLeases) : ActiveRequest(PairLeases[i]) THEN Fail("Duplicate")
  ELSE Save(NewLease(u, price))

\* the first request of the pair
createLease(pstatus, price) ==
  /\ lease.status = "none"
  /\ Handle(createLeaseResult("tenant", pstatus, price))

\* a later request of the pair: the new document is the one addressed from now on
createLeaseAgain(pstatus, price) ==
  /\ lease.status # "none"
  /\ Len(PairLeases) < MaxLeases
  /\ createLeaseResult("tenant", pstatus, price).res = "ok"
  /\ lease' = createLeaseResult("tenant", pstatus, price).doc
  /\ pair' = Append(pair, lease)
  /\ UNCHANGED <<now, reqs>>

\* the requests that follow address another document of the pair
Select(i) ==
  /\ lease.status # "none"
  /\ i \in 1..Len(pair)
  /\ lease' = pair[i]
  /\ pair' = [pair EXCEPT ![i] = lease]
  /\ UNCHANGED <<now, reqs>>

\* ------------------------------------------------------- reviewApplication
\* a variant of reviewApplicationResult whose approval marks the deposit paid;
\* C38 tells it from reviewApplicationResult
reviewApplicationResultPaid(u, action) ==
  IF ~(Found(lease) /\ lease.landlord = u /\ lease.status = "pending_request")
  THEN Fail("NotFound")
  ELSE IF action \notin {"approve", "reject"} THEN Fail("InvalidAction")
  ELSE IF action = "approve"
  THEN Save(PushMessage([PushStatus(lease, "approved") EXCEPT
                           !.startDate = now,
                           !.endDate = now + YearDays,
                           !.securityDeposit = lease.rentAmount,
                           !.depositStatus = "paid"]))
  ELSE Save(PushMessage(PushStatus(lease, "rejected")))

reviewApplicationResult(u, action) ==
  IF ~(Found(lease) /\ lease.landlord = u /\ lease.status = "pending_request")
  THEN Fail("NotFound")
  ELSE IF action \notin {"approve", "reject"} THEN Fail("InvalidAction")
  ELSE IF action = "approve"
  THEN Save(PushMessage([PushStatus(lease, "approved") EXCEPT
                           !.startDate = now,
                           !.endDate = now + YearDays,
                           !.securityDeposit = lease.rentAmount,
                           !.depositStatus = "pending"]))
  ELSE Save(PushMessage(PushStatus(lease, "rejected")))

reviewApplication(u, action) ==
  Handle(reviewApplicationResult(u, action))

\* ---------------------------------------------------------- approveRequest
\* the legacy approval: the controller exports it, no route mounts it.  price
\* is the price of the populated property at the time of the request.
approveRequestResult(u, price) ==
  IF ~(Found(lease) /\ lease.landlord = u /\ lease.status = "pending_request")
  THEN Fail("NotFound")
  ELSE Save([PushStatus(lease, "draft") EXCEPT
               !.rentAmount = IF (@ = Null \/ @ = 0) /\ price # 0 THEN price ELSE @])

approveRequest(u, price) ==
  Handle(approveRequestResult(u, price))

\* ------------------------------------------------------ request payloads
\* a request body is a record holding only the fields the client sent
Has(p, f) == f \in DOMAIN p

Get(p, f, old) == IF Has(p, f) THEN p[f] ELSE old

Truthy(p, f) == Has(p, f) /\ p[f] = TRUE

DateChoices == {1}

FieldPayloads ==
  {[title |-> TRUE], [resolveChanges |-> TRUE]}
  \cup {[startDate |-> d, endDate |-> d, rentAmount |-> 2] : d \in DateChoices}

\* allowedUpdates.forEach / landlordEditable.forEach
ApplyFields(d, p) ==
  [d EXCEPT !.startDate = Get(p, "startDate", @),
            !.endDate = Get(p, "endDate", @),
            !.rentAmount = Get(p, "rentAmount", @),
            !.securityDeposit = Get(p, "securityDeposit", @)]

\* a variant of ResolveAll that leaves the entries as they are; C15 tells it from
\* ResolveAll
ResolveNone(rcs) == rcs

\* requestedChanges.forEach(rc => { if (!rc.resolved) rc.resolved = true })
ResolveAll(rcs) == [i \in 1..Len(rcs) |-> TRUE]

\* ----------------------------------------------------- createOrUpdateDraft
createOrUpdateDraftResult(u, p) ==
  IF ~(Found(lease) /\ lease.landlord = u
       /\ lease.status \in {"approved", "draft", "changes_requested"})
  THEN Fail("NotFound")
  ELSE
    LET d1 == ApplyFields(lease, p)
        d2 == IF d1.status \in {"approved", "changes_requested"}
              THEN PushStatus(d1, "draft") ELSE d1
        \* runs after the status was set to draft
        d3 == IF d2.status = "changes_requested" /\ Truthy(p, "resolveChanges")
              THEN [d2 EXCEPT !.requestedChanges = ResolveAll(@)] ELSE d2
        d4 == IF Truthy(p, "message") THEN PushMessage(d3) ELSE d3
    IN Save(d4)

createOrUpdateDraft(u, p) ==
  Handle(createOrUpdateDraftResult(u, p))

\* ------------------------------------------------------------ sendToTenant
MissingFields(d) ==
  \/ d.startDate = Null
  \/ d.endDate = Null
  \/ d.rentAmount = Null \/ d.rentAmount <= 0
  \/ d.securityDeposit = Null

\* a variant of sendToTenantResult that keeps the resolutions it made when the
\* validation refuses the request; C11 tells it from sendToTenantResult
sendToTenantResultEager(u, msg) ==
  IF ~(Found(lease) /\ lease.landlord = u
       /\ lease.status \in {"draft", "changes_requested"})
  THEN Fail("NotFound")
  ELSE
    LET d1 == [lease EXCEPT !.requestedChanges = ResolveAll(@)]
    IN IF MissingFields(d1) THEN [res |-> "MissingFields", doc |-> d1]
       ELSE LET d2 == PushStatus(d1, "sent_to_tenant")
                d3 == IF msg THEN PushMessage(d2) ELSE d2
            IN Save(d3)

sendToTenantResult(u, msg) ==
  IF ~(Found(lease) /\ lease.landlord = u
       /\ lease.status \in {"draft", "changes_requested"})
  THEN Fail("NotFound")
  ELSE
    LET d1 == [lease EXCEPT !.requestedChanges = ResolveAll(@)]
    IN IF MissingFields(d1) THEN Fail("MissingFields")
       ELSE LET d2 == PushStatus(d1, "sent_to_tenant")
                d3 == IF msg THEN PushMessage(d2) ELSE d2
            IN Save(d3)

sendToTenant(u, msg) == Handle(sendToTenantResult(u, msg))

\* ---------------------------------------------------------- requestChanges
AddChangeRequest(d) ==
  [PushStatus(d, "changes_requested") EXCEPT !.requestedChanges = Append(@, FALSE)]

requestChangesResult(u, hasChanges) ==
  IF ~(Found(lease) /\ lease.tenant = u /\ lease.status = "sent_to_tenant")
  THEN Fail("NotFound")
  ELSE IF ~hasChanges THEN Fail("ChangesRequired")
  ELSE Save(PushMessage(AddChangeRequest(lease)))

requestChanges(u, hasChanges) ==
  Handle(requestChangesResult(u, hasChanges))

\* ------------------------------------------------------- tenantReviewLease
tenantReviewLeaseResult(u, action, hasChanges, msg) ==
  IF ~(Found(lease) /\ lease.tenant = u /\ lease.status = "sent_to_tenant")
  THEN Fail("NotFound")
  ELSE IF action \notin {"approve", "request_changes"} THEN Fail("InvalidAction")
  ELSE IF action = "approve"
  THEN LET d1 == PushStatus(lease, "sent_to_landlord")
       IN Save(IF msg THEN PushMessage(d1) ELSE d1)
  ELSE IF ~hasChanges THEN Fail("ChangesRequired")
  ELSE LET d1 == AddChangeRequest(lease)
       IN Save(IF msg THEN PushMessage(d1) ELSE d1)

tenantReviewLease(u, action, hasChanges, msg) ==
  Handle(tenantReviewLeaseResult(u, action, hasChanges, msg))

\* ---------------------------------------------- sendToLandlordForSignature
sendToLandlordForSignatureResult(u, msg) ==
  IF ~(Found(lease) /\ lease.tenant = u /\ lease.status = "sent_to_tenant")
  THEN Fail("NotFound")
  ELSE IF Signed(lease, "tenant") THEN Fail("AlreadySigned")
  ELSE LET d1 == IF msg THEN PushMessage(lease) ELSE lease
       IN Save(PushStatus(d1, "sent_to_landlord"))

sendToLandlordForSignature(u, msg) ==
  Handle(sendToLandlordForSignatureResult(u, msg))

\* --------------------------------------------------------------- signLease
\* request bodies and upload outcomes: a body without signature data, a body
\* with each mode whose upload succeeds, and one whose upload fails
SignInputs ==
  {[hasData |-> FALSE, mode |-> "draw", uploadOk |-> TRUE],
   [hasData |-> TRUE, mode |-> "draw", uploadOk |-> FALSE]}
  \cup {[hasData |-> TRUE, mode |-> m, uploadOk |-> TRUE] : m \in SignModes}

RoleOf(d, u) == IF u = d.landlord THEN "landlord" ELSE "tenant"

\* a variant of SignCheck without the check of the actor's own slot; C5 tells it
\* from SignCheck
SignCheckNoSlot(d, u, hasData) ==
  IF ~hasData THEN "SignatureRequired"
  ELSE IF ~Found(d) THEN "NotFound"
  ELSE IF d.isLocked THEN "AlreadyLocked"
  ELSE IF u # d.landlord /\ u # d.tenant THEN "Unauthorized"
  ELSE IF RoleOf(d, u) = "tenant" /\ ~Signed(d, "landlord") /\ d.status = "sent_to_tenant"
  THEN "ReviewFirst"
  ELSE IF RoleOf(d, u) = "tenant" /\ ~Signed(d, "landlord") /\ d.status = "sent_to_landlord"
  THEN "LandlordFirst"
  ELSE "pass"

\* the checks of signLease that precede the upload, in the order of the code
SignCheck(d, u, hasData) ==
  IF ~hasData THEN "SignatureRequired"
  ELSE IF ~Found(d) THEN "NotFound"
  ELSE IF d.isLocked THEN "AlreadyLocked"
  ELSE IF u # d.landlord /\ u # d.tenant THEN "Unauthorized"
  ELSE IF Signed(d, RoleOf(d, u)) THEN "AlreadySigned"
  ELSE IF RoleOf(d, u) = "tenant" /\ ~Signed(d, "landlord") /\ d.status = "sent_to_tenant"
  THEN "ReviewFirst"
  ELSE IF RoleOf(d, u) = "tenant" /\ ~Signed(d, "landlord") /\ d.status = "sent_to_landlord"
  THEN "LandlordFirst"
  ELSE "pass"

\* a variant of SignApply that assigns the whole signatures object, and so empties
\* the other party's slot; C3 tells it from SignApply
SignApplyFresh(d, u, mode) ==
  LET role == RoleOf(d, u)
      d1 == [d EXCEPT !.signatures =
               [r \in Parties |-> IF r = role
                                  THEN [signedAt |-> TRUE, signatureType |-> mode]
                                  ELSE EmptySlot]]
      d2 == IF role = "landlord"
            THEN IF d1.status \in {"sent_to_landlord", "draft"}
                 THEN PushStatus(d1, "signed_by_landlord") ELSE d1
            ELSE [PushStatus(d1, "fully_executed") EXCEPT
                    !.isLocked = TRUE,
                    !.moveInDate = IF d1.startDate # Null /\ d1.startDate > now
                                   THEN d1.startDate ELSE @]
  IN PushMessage(d2)

\* a variant of SignApply whose tenant branch does not lock the lease; C36
\* tells it from SignApply
SignApplyNoLock(d, u, mode) ==
  LET role == RoleOf(d, u)
      d1 == [d EXCEPT !.signatures[role] = [signedAt |-> TRUE, signatureType |-> mode]]
      d2 == IF role = "landlord"
            THEN IF d1.status \in {"sent_to_landlord", "draft"}
                 THEN PushStatus(d1, "signed_by_landlord") ELSE d1
            ELSE [PushStatus(d1, "fully_executed") EXCEPT
                    !.moveInDate = IF d1.startDate # Null /\ d1.startDate > now
                                   THEN d1.startDate ELSE @]
  IN PushMessage(d2)

\* the mutation of signLease after a successful upload
SignApply(d, u, mode) ==
  LET role == RoleOf(d, u)
      d1 == [d EXCEPT !.signatures[role] = [signedAt |-> TRUE, signatureType |-> mode]]
      d2 == IF role = "landlord"
            THEN IF d1.status \in {"sent_to_landlord", "draft"}
                 THEN PushStatus(d1, "signed_by_landlord") ELSE d1
            ELSE [PushStatus(d1, "fully_executed") EXCEPT
                    !.isLocked = TRUE,
                    !.moveInDate = IF d1.startDate # Null /\ d1.startDate > now
                                   THEN d1.startDate ELSE @]
  IN PushMessage(d2)

\* a variant of SignOutcome that saves before it uploads; C10 tells it from
\* SignOutcome
SignOutcomePersistFirst(d, u, hasData, mode, uploadOk) ==
  IF SignCheck(d, u, hasData) # "pass" THEN [res |-> SignCheck(d, u, hasData), doc |-> d]
  ELSE IF ~Valid(SignApply(d, u, mode)) THEN [res |-> "ValidationError", doc |-> d]
  ELSE IF ~uploadOk THEN [res |-> "UploadFailed", doc |-> PreSave(SignApply(d, u, mode))]
  ELSE [res |-> "ok", doc |-> PreSave(SignApply(d, u, mode))]

\* signLease on the loaded document d: validate, upload, persist
SignOutcome(d, u, hasData, mode, uploadOk) ==
  IF SignCheck(d, u, hasData) # "pass" THEN [res |-> SignCheck(d, u, hasData), doc |-> d]
  ELSE IF ~uploadOk THEN [res |-> "UploadFailed", doc |-> d]
  ELSE IF ~Valid(SignApply(d, u, mode)) THEN [res |-> "ValidationError", doc |-> d]
  ELSE [res |-> "ok", doc |-> PreSave(SignApply(d, u, mode))]

signLeaseResult(u, hasData, mode, uploadOk) == SignOutcome(lease, u, hasData, mode, uploadOk)

signLease(u, hasData, mode, uploadOk) ==
  Handle(signLeaseResult(u, hasData, mode, uploadOk))

\* ------------------------------------------------------------- updateLease
AllowedTransitions(role, status) ==
  IF role = "landlord" THEN
    CASE status = "pending_request" -> {"under_review", "rejected"}
      [] status = "under_review" -> {"approved", "rejected"}
      [] status = "approved" -> {"draft"}
      [] status = "draft" -> {"sent_to_tenant"}
      [] status = "changes_requested" -> {"draft"}
      [] status = "sent_to_landlord" -> {"signed_by_landlord"}
      [] status = "signed_by_tenant" -> {"fully_executed"}
      [] status = "active" -> {"renewal_pending", "notice_given"}
      [] OTHER -> {}
  ELSE
    CASE status = "sent_to_tenant" -> {"changes_requested", "sent_to_landlord"}
      [] status = "renewal_pending" -> {"accepted", "declined"}
      [] status = "notice_given" -> {"move_out_scheduled"}
      [] OTHER -> {}

\* the statuses a role's table names, and one it does not
StatusPayloads(role) ==
  {[status |-> s] : s \in UNION {AllowedTransitions(role, st) : st \in StatusEnum \cup {"none"}}
                            \cup {"cancelled"}}

updateLeaseResult(u, p) ==
  IF ~(Found(lease) /\ (lease.landlord = u \/ lease.tenant = u)) THEN Fail("NotFound")
  ELSE IF Has(p, "status") /\ p.status \notin AllowedTransitions(RoleOf(lease, u), lease.status)
  THEN Fail("InvalidTransition")
  ELSE
    LET d1 == IF Has(p, "status") THEN PushStatus(lease, p.status) ELSE lease
        d2 == IF u = lease.landlord THEN ApplyFields(d1, p) ELSE d1
        d3 == IF Truthy(p, "message") THEN PushMessage(d2) ELSE d2
    IN Save(d3)

updateLease(u, p) == Handle(updateLeaseResult(u, p))

\* ------------------------------------------------------------- cancelLease
Cancellable ==
  {"pending_request", "under_review", "approved", "draft", "sent_to_tenant",
   "changes_requested"}

cancelLeaseResult(u) ==
  IF ~(Found(lease) /\ (lease.landlord = u \/ lease.tenant = u)
       /\ lease.status \in Cancellable)
  THEN Fail("NotFound")
  ELSE
    LET d1 == PushMessage(PushStatus(lease, "cancelled"))
        d2 == IF d1.depositStatus = "paid"
              THEN [d1 EXCEPT !.depositStatus = "pending_refund",
                              !.depositTransactions =
                                 Append(@, [amount |-> d1.securityDeposit, type |-> "refund"])]
              ELSE d1
    IN Save(d2)

cancelLease(u) == Handle(cancelLeaseResult(u))

\* ------------------------------------------------- deleteLease, restoreLease
\* a variant of deleteLeaseResult without the status condition; C39 tells it
\* from deleteLeaseResult
deleteLeaseResultAnyStatus(u) ==
  IF ~(Found(lease) /\ (lease.landlord = u \/ lease.tenant = u))
  THEN Fail("NotFound")
  ELSE Save([lease EXCEPT !.isDeleted = TRUE])

deleteLeaseResult(u) ==
  IF ~(Found(lease) /\ (lease.landlord = u \/ lease.tenant = u)
       /\ lease.status \in {"draft", "cancelled", "expired", "rejected"})
  THEN Fail("NotFound")
  ELSE Save([lease EXCEPT !.isDeleted = TRUE])

deleteLease(u) == Handle(deleteLeaseResult(u))

restoreLeaseResult(u) ==
  IF ~(lease.status # "none" /\ (lease.landlord = u \/ lease.tenant = u) /\ lease.isDeleted)
  THEN Fail("NotFound")
  ELSE Save([lease EXCEPT !.isDeleted = FALSE])

restoreLease(u) == Handle(restoreLeaseResult(u))

\* ------------------------------------------------ getLeaseById, getMyLeases
\* Lease.findOne(...) and res.json({ data: lease }): the stored document is
\* returned as it is, nothing is saved and no hook runs
getLeaseByIdResult(u) ==
  IF ~(Found(lease) /\ (lease.landlord = u \/ lease.tenant = u))
  THEN Fail("NotFound")
  ELSE [res |-> "ok", doc |-> lease]

\* Lease.find({ isDeleted: false, $or: [landlord, tenant] }) without filters
getMyLeasesResult(u) ==
  SelectSeq(PairLeases, LAMBDA d : Found(d) /\ (d.landlord = u \/ d.tenant = u))

\* the counts by role of getLeaseStats: Lease.countDocuments({ landlord or
\* tenant: userId, isDeleted: false })
getLeaseStatsResult(u) ==
  [asLandlord |-> Cardinality({i \in 1..Len(PairLeases) :
                                 Found(PairLeases[i]) /\ PairLeases[i].landlord = u}),
   asTenant |-> Cardinality({i \in 1..Len(PairLeases) :
                               Found(PairLeases[i]) /\ PairLeases[i].tenant = u})]

\* ------------------------------------------------------ move-in inspection
scheduleMoveInInspectionResult(u, date) ==
  IF ~(Found(lease) /\ (lease.landlord = u \/ lease.tenant = u)
       /\ lease.status = "fully_executed")
  THEN Fail("NotFound")
  ELSE IF date = Null THEN Fail("DateRequired")
  ELSE Save(PushMessage([lease EXCEPT !.moveIn.scheduledAt = date]))

scheduleMoveInInspection(u, date) == Handle(scheduleMoveInInspectionResult(u, date))

conductMoveInInspectionResult(u) ==
  IF ~(Found(lease) /\ (lease.landlord = u \/ lease.tenant = u)
       /\ lease.status = "fully_executed")
  THEN Fail("NotFound")
  ELSE IF lease.moveIn.scheduledAt = Null THEN Fail("NotScheduled")
  ELSE
    LET d1 == IF u = lease.landlord
              THEN [lease EXCEPT !.moveIn.signedByLandlord = TRUE]
              ELSE [lease EXCEPT !.moveIn.signedByTenant = TRUE]
        d2 == IF d1.moveIn.signedByLandlord /\ d1.moveIn.signedByTenant
              THEN [PushStatus(d1, "active") EXCEPT !.moveInDate = now]
              ELSE d1
    IN Save(d2)

conductMoveInInspection(u) == Handle(conductMoveInInspectionResult(u))

\* -------------------------------------------------------------- giveNotice
\* the reason of a given notice is the request's text, here one value that is
\* not the text of the hook's notice
giveNoticeResult(u, type, date) ==
  IF ~(Found(lease) /\ (lease.landlord = u \/ lease.tenant = u) /\ lease.status = "active")
  THEN Fail("NotFound")
  ELSE IF type \notin {"renewal", "termination"} THEN Fail("InvalidType")
  ELSE IF date = Null THEN Fail("DateRequired")
  ELSE
    LET d1 == [lease EXCEPT !.notices = Append(@, [type |-> type, reason |-> "request", acknowledged |-> FALSE])]
    IN Save(IF type = "termination" THEN PushStatus(d1, "notice_given")
            ELSE [d1 EXCEPT !.renewal = "offered"])

giveNotice(u, type, date) == Handle(giveNoticeResult(u, type, date))

\* --------------------------------------------------------- respondToRenewal
\* lease.notices.find(n => n.type === "renewal" && !n.acknowledged), acknowledged
Acknowledge(ns) ==
  LET open == {i \in 1..Len(ns) : ns[i].type = "renewal" /\ ~ns[i].acknowledged}
  IN IF open = {} THEN ns
     ELSE LET k == CHOOSE i \in open : \A j \in open : i <= j
          IN [ns EXCEPT ![k].acknowledged = TRUE]

\* a variant of RenewalOffer that does not look at the caller; C32 tells it
\* from RenewalOffer
RenewalOfferAnyone(d, u) == Found(d) /\ d.renewal = "offered"

\* a variant of RenewalOffer that does not look at renewal.status; C25 tells it
\* from RenewalOffer
RenewalOfferAnswered(d, u) == Found(d) /\ d.tenant = u

\* Lease.findOne({ tenant, "renewal.status": "offered", isDeleted: false })
RenewalOffer(d, u) == Found(d) /\ d.tenant = u /\ d.renewal = "offered"

respondToRenewalResult(u, action, newRentAmount, newEndDate) ==
  IF ~RenewalOffer(lease, u)
  THEN Fail("NotFound")
  ELSE IF action \notin {"accept", "decline"} THEN Fail("InvalidAction")
  ELSE
    LET d1 == IF action = "accept"
              THEN [lease EXCEPT
                      !.renewal = "accepted",
                      !.rentAmount = IF newRentAmount # Null /\ newRentAmount # 0
                                     THEN newRentAmount ELSE @,
                      !.endDate = IF newEndDate # Null THEN newEndDate ELSE @,
                      !.addenda = @ + 1,
                      !.statusHistory = Append(@, "active")]
              ELSE PushStatus([lease EXCEPT !.renewal = "declined"], "notice_given")
    IN Save([d1 EXCEPT !.notices = Acknowledge(@)])

respondToRenewal(u, action, newRentAmount, newEndDate) ==
  Handle(respondToRenewalResult(u, action, newRentAmount, newEndDate))

\* ------------------------------------------------ scheduleMoveOutInspection
scheduleMoveOutInspectionResult(u, date) ==
  IF ~(Found(lease) /\ (lease.landlord = u \/ lease.tenant = u)
       /\ lease.status \in {"notice_given", "active"})
  THEN Fail("NotFound")
  ELSE IF date = Null THEN Fail("DateRequired")
  ELSE Save(PushMessage([lease EXCEPT !.moveOut.scheduledAt = date]))

scheduleMoveOutInspection(u, date) == Handle(scheduleMoveOutInspectionResult(u, date))

\* ----------------------------------------------------- processDepositReturn
RECURSIVE Sum(_)
Sum(seq) == IF seq = <<>> THEN 0 ELSE Head(seq) + Sum(Tail(seq))

Abs(x) == IF x < 0 THEN 0 - x ELSE x

Deductions(deds) == [i \in 1..Len(deds) |-> [amount |-> deds[i], type |-> "deduction"]]

\* a variant of DepositHeld that does not look at depositStatus; C26 tells it
\* from DepositHeld
DepositAnyStatus(d, u) ==
  Found(d) /\ d.landlord = u /\ d.status \in {"expired", "terminated"}

\* Lease.findOne({ landlord, status: { $in: [expired, terminated] },
\*                 depositStatus: "held", isDeleted: false })
DepositHeld(d, u) ==
  /\ Found(d)
  /\ d.landlord = u
  /\ d.status \in {"expired", "terminated"}
  /\ d.depositStatus = "held"

\* the amount checks of processDepositReturn on the loaded document d
DepositCheck(d, returnedAmount, deds) ==
  IF returnedAmount = Null \/ returnedAmount = 0 \/ returnedAmount < 0
  THEN "AmountRequired"
  ELSE IF Abs(returnedAmount - (d.securityDeposit - Sum(deds))) > 1
  THEN "AmountMismatch"
  ELSE "pass"

\* the mutation of processDepositReturn: ledger entries, depositStatus, message
DepositApply(d, returnedAmount, deds) ==
  PushMessage(
    [d EXCEPT
       !.depositTransactions =
          (@ \o Deductions(deds)) \o <<[amount |-> returnedAmount, type |-> "return"]>>,
       !.depositStatus = IF returnedAmount = 0 THEN "held"
                         ELSE IF returnedAmount < d.securityDeposit
                         THEN "partially_returned" ELSE "returned"])

processDepositReturnResult(u, returnedAmount, deds) ==
  IF ~DepositHeld(lease, u)
  THEN Fail("NotFound")
  ELSE IF DepositCheck(lease, returnedAmount, deds) # "pass"
  THEN Fail(DepositCheck(lease, returnedAmount, deds))
  ELSE Save(DepositApply(lease, returnedAmount, deds))

processDepositReturn(u, returnedAmount, deds) ==
  Handle(processDepositReturnResult(u, returnedAmount, deds))

\* ------------------------------------------- signLease, step by step
\* A request is idle, has loaded the lease and passed the checks (loaded),
\* has its upload back (uploaded), or has answered (done).
Reqs == 1..MaxReqs

IdleReq == [pc |-> "idle", by |-> "none", mode |-> "none", snap |-> NoLease, res |-> "none"]

AllIdle == \A r \in Reqs : reqs[r].pc = "idle"

Answer(r, kind) == [reqs EXCEPT ![r] = [@ EXCEPT !.pc = "done", !.res = kind]]

\* Lease.findOne and the checks that follow it without an await between them
SignLoad(r, u, hasData, mode) ==
  /\ reqs[r].pc = "idle"
  /\ lease.status # "none"
  /\ LET c == SignCheck(lease, u, hasData)
     IN reqs' = [reqs EXCEPT ![r] =
                   IF c = "pass"
                   THEN [pc |-> "loaded", by |-> u, mode |-> mode, snap |-> lease, res |-> "none"]
                   ELSE [pc |-> "done", by |-> u, mode |-> mode, snap |-> lease, res |-> c]]
  /\ UNCHANGED <<lease, now, pair>>

\* await uploadServices.uploadSingleFile(...)
SignUpload(r, uploadOk) ==
  /\ reqs[r].pc = "loaded"
  /\ reqs' = IF uploadOk THEN [reqs EXCEPT ![r].pc = "uploaded"]
             ELSE Answer(r, "UploadFailed")
  /\ UNCHANGED <<lease, now, pair>>

\* what save() sends for a document loaded as snap and changed to new: the
\* modified paths are set, the new array elements are pushed; no version check
Pushed(old, new) == SubSeq(new, Len(old) + 1, Len(new))

Changed(snap, new, cur, f) == IF new[f] # snap[f] THEN new[f] ELSE cur[f]

WriteDelta(cur, snap, new) ==
  [cur EXCEPT
     !.status = Changed(snap, new, cur, "status"),
     !.isLocked = Changed(snap, new, cur, "isLocked"),
     !.moveInDate = Changed(snap, new, cur, "moveInDate"),
     !.renewal = Changed(snap, new, cur, "renewal"),
     !.depositStatus = Changed(snap, new, cur, "depositStatus"),
     !.depositTransactions = @ \o Pushed(snap.depositTransactions, new.depositTransactions),
     !.signatures = [role \in Parties |->
                       IF new.signatures[role] # snap.signatures[role]
                       THEN new.signatures[role] ELSE cur.signatures[role]],
     !.statusHistory = @ \o Pushed(snap.statusHistory, new.statusHistory),
     !.notices = @ \o Pushed(snap.notices, new.notices),
     !.messages = IF new.messages # snap.messages /\ @ < MaxMessages THEN @ + 1 ELSE @]

\* the mutation of the loaded copy and await lease.save()
SignSave(r) ==
  /\ reqs[r].pc = "uploaded"
  /\ LET new == SignApply(reqs[r].snap, reqs[r].by, reqs[r].mode)
     IN IF Valid(new)
        THEN /\ WithinBounds(WriteDelta(lease, reqs[r].snap, PreSave(new)))
             /\ lease' = WriteDelta(lease, reqs[r].snap, PreSave(new))
             /\ reqs' = Answer(r, "ok")
        ELSE /\ lease' = lease
             /\ reqs' = Answer(r, "ValidationError")
  /\ UNCHANGED <<now, pair>>

\* ------------------------------------ processDepositReturn, step by step
\* Lease.findOne with the query of processDepositReturn; the request then
\* holds its own copy of the document
DepositLoad(r, u) ==
  /\ reqs[r].pc = "idle"
  /\ lease.status # "none"
  /\ reqs' = [reqs EXCEPT ![r] =
                IF DepositHeld(lease, u)
                THEN [pc |-> "loaded", by |-> u, mode |-> "deposit", snap |-> lease, res |-> "none"]
                ELSE [pc |-> "done", by |-> u, mode |-> "deposit", snap |-> lease, res |-> "NotFound"]]
  /\ UNCHANGED <<lease, now, pair>>

\* the amount checks and the mutation of the loaded copy, which run without an
\* await between them, and await lease.save()
DepositSave(r, returnedAmount, deds) ==
  /\ reqs[r].pc = "loaded"
  /\ reqs[r].mode = "deposit"
  /\ LET snap == reqs[r].snap
         c == DepositCheck(snap, returnedAmount, deds)
         new == DepositApply(snap, returnedAmount, deds)
     IN IF c # "pass"
        THEN lease' = lease /\ reqs' = Answer(r, c)
        ELSE IF ~Valid(new)
        THEN lease' = lease /\ reqs' = Answer(r, "ValidationError")
        ELSE /\ lease' = WriteDelta(lease, snap, PreSave(new))
             /\ reqs' = Answer(r, "ok")
  /\ UNCHANGED <<now, pair>>

\* ------------------------------------------------- the payment capability
\* The deposit is paid and then held outside the lease controller: the
\* controller only reads depositStatus paid (cancelLease) and held
\* (processDepositReturn).
depositPayment ==
  /\ lease.status # "none"
  /\ lease.depositStatus \in {"pending", "paid"}
  /\ lease' = [lease EXCEPT !.depositStatus = IF @ = "pending" THEN "paid" ELSE "held"]
  /\ UNCHANGED <<now, reqs, pair>>

\* ---------------------------------------------------------------- the clock
Tick ==
  /\ now < MaxTime
  /\ now' = now + 1
  /\ UNCHANGED <<lease, reqs, pair>>

Init ==
  /\ lease = NoLease
  /\ now = 0
  /\ reqs = [r \in Reqs |-> IdleReq]
  /\ pair = <<>>

\* the requests of the two parties, with the inputs that reach each branch of
\* the handlers; every handler refuses a user who is no party of the lease
Next ==
  \/ \E ps \in {"active", "inactive", "missing"}, price \in {0, 1} : createLease(ps, price)
  \/ \E u \in Parties, a \in {"approve", "reject", "hold"} : reviewApplication(u, a)
  \/ \E u \in Parties, p \in FieldPayloads : createOrUpdateDraft(u, p)
  \/ \E u \in Parties : sendToTenant(u, FALSE)
  \/ \E u \in Parties, c \in BOOLEAN : requestChanges(u, c)
  \/ \E u \in Parties, a \in {"approve", "request_changes", "hold"}, c \in BOOLEAN :
        tenantReviewLease(u, a, c, FALSE)
  \/ \E u \in Parties, m \in BOOLEAN : sendToLandlordForSignature(u, m)
  \/ \E u \in Parties, x \in SignInputs : signLease(u, x.hasData, x.mode, x.uploadOk)
  \/ \E u \in Parties : \E p \in FieldPayloads \cup StatusPayloads(u) : updateLease(u, p)
  \/ \E u \in Parties : cancelLease(u)
  \/ \E u \in Parties : deleteLease(u)
  \/ \E u \in Parties : restoreLease(u)
  \/ \E u \in Parties, d \in DateChoices \cup {Null} : scheduleMoveInInspection(u, d)
  \/ \E u \in Parties : conductMoveInInspection(u)
  \/ \E u \in Parties, t \in {"renewal", "termination", "other"}, d \in DateChoices \cup {Null} :
        giveNotice(u, t, d)
  \/ \E u \in Parties, a \in {"accept", "decline", "hold"}, r \in {Null, 2}, d \in DateChoices \cup {Null} :
        respondToRenewal(u, a, r, d)
  \/ \E u \in Parties, d \in DateChoices \cup {Null} : scheduleMoveOutInspection(u, d)
  \/ Tick

Spec == Init /\ [][Next]_vars

\* The lease controller together with the payment capability.  Without it
\* depositStatus stays pending and processDepositReturn, which needs a held
\* deposit, is always refused.
\* the terms a landlord sets with a deposit
DepositPayloads ==
  {[startDate |-> d, endDate |-> d, rentAmount |-> 2, securityDeposit |-> 5] : d \in DateChoices}

\* { returnedAmount, deductions } of a processDepositReturn request
ReturnInputs ==
  [returnedAmount : {Null, 0, 1, 2, 4, 5, 6}, deductions : {<<>>, <<1>>}]

\* the deposit of a lease from the application to the return: the handlers
\* that take a lease to expired, cancel it or put it in the trash, the payment
\* capability and processDepositReturn
NextDeposit ==
  \/ \E ps \in {"active", "inactive", "missing"}, price \in {0, 1} : createLease(ps, price)
  \/ \E u \in Parties : \E p \in FieldPayloads \cup DepositPayloads : updateLease(u, p)
  \/ \E u \in Parties, x \in SignInputs : signLease(u, x.hasData, x.mode, x.uploadOk)
  \/ \E u \in Parties, d \in DateChoices \cup {Null} : scheduleMoveInInspection(u, d)
  \/ \E u \in Parties : conductMoveInInspection(u)
  \/ \E u \in Parties : cancelLease(u)
  \/ \E u \in Parties : deleteLease(u)
  \/ \E u \in Parties : restoreLease(u)
  \/ depositPayment
  \/ \E u \in Parties, x \in ReturnInputs : processDepositReturn(u, x.returnedAmount, x.deductions)
  \/ Tick

SpecDeposit == Init /\ [][NextDeposit]_vars

\* the tenancy of one lease: the handlers that take a lease to active, and
\* those of notices, renewal and move-out
NextTenancy ==
  \/ \E ps \in {"active", "inactive", "missing"}, price \in {0, 1} : createLease(ps, price)
  \/ \E u \in Parties : \E p \in FieldPayloads \cup StatusPayloads(u) : updateLease(u, p)
  \/ \E u \in Parties, x \in SignInputs : signLease(u, x.hasData, x.mode, x.uploadOk)
  \/ \E u \in Parties, d \in DateChoices \cup {Null} : scheduleMoveInInspection(u, d)
  \/ \E u \in Parties : conductMoveInInspection(u)
  \/ \E u \in Parties, t \in {"renewal", "termination", "other"}, d \in DateChoices \cup {Null} :
        giveNotice(u, t, d)
  \/ \E u \in Parties, a \in {"accept", "decline", "hold"}, r \in {Null, 2}, d \in DateChoices \cup {Null} :
        respondToRenewal(u, a, r, d)
  \/ \E u \in Parties, d \in DateChoices \cup {Null} : scheduleMoveOutInspection(u, d)
  \/ Tick

SpecTenancy == Init /\ [][NextTenancy]_vars

\* the prices a property has over time
PriceChoices == {0, 1}

\* the application phase with the legacy approval next to reviewApplication
NextLegacy ==
  \/ \E ps \in {"active", "inactive", "missing"}, price \in PriceChoices : createLease(ps, price)
  \/ \E u \in Parties, price \in PriceChoices : approveRequest(u, price)
  \/ \E u \in Parties, a \in {"approve", "reject", "hold"} : reviewApplication(u, a)
  \/ \E u \in Parties, p \in FieldPayloads : createOrUpdateDraft(u, p)
  \/ \E u \in Parties : sendToTenant(u, FALSE)
  \/ \E u \in Parties, a \in {"approve", "request_changes", "hold"}, c \in BOOLEAN :
        tenantReviewLease(u, a, c, FALSE)
  \/ \E u \in Parties : \E p \in FieldPayloads \cup StatusPayloads(u) : updateLease(u, p)
  \/ \E u \in Parties : cancelLease(u)
  \/ Tick

SpecLegacy == Init /\ [][NextLegacy]_vars

\* the way of one lease to an expired lease with a held deposit, requests one
\* at a time
DepositWorkflow ==
  \/ createLease("active", 1)
  \/ \E p \in DepositPayloads \cup {[title |-> TRUE]} : updateLease("landlord", p)
  \/ signLease("tenant", TRUE, "draw", TRUE)
  \/ depositPayment

\* processDepositReturn requests that run as separate load and save steps
NextDepositConc ==
  \/ AllIdle /\ DepositWorkflow
  \/ \E r \in Reqs, u \in Users : DepositLoad(r, u)
  \/ \E r \in Reqs, x \in ReturnInputs : DepositSave(r, x.returnedAmount, x.deductions)
  \/ Tick

SpecDepositConc == Init /\ [][NextDepositConc]_vars

\* all the lease documents of one (property, tenant) pair, under createLease,
\* cancelLease, deleteLease and restoreLease
NextPair ==
  \/ \E ps \in {"active", "inactive", "missing"}, price \in {0, 1} : createLease(ps, price)
  \/ \E ps \in {"active", "inactive", "missing"}, price \in {0, 1} : createLeaseAgain(ps, price)
  \/ \E i \in 1..(MaxLeases - 1) : Select(i)
  \/ \E u \in Parties : cancelLease(u)
  \/ \E u \in Parties : deleteLease(u)
  \/ \E u \in Parties : restoreLease(u)
  \/ Tick

SpecPair == Init /\ [][NextPair]_vars

\* the path to the signing phase, with signLease requests that interleave
Workflow ==
  \/ createLease("active", 1)
  \/ \E a \in {"approve", "reject"} : reviewApplication("landlord", a)
  \/ createOrUpdateDraft("landlord", [title |-> TRUE])
  \/ sendToTenant("landlord", FALSE)
  \/ tenantReviewLease("tenant", "approve", FALSE, FALSE)
  \/ \E u \in Parties : signLease(u, TRUE, "draw", TRUE)
  \/ \E u \in Parties : cancelLease(u)

NextConc ==
  \/ AllIdle /\ Workflow
  \/ \E r \in Reqs, u \in Users, x \in SignInputs : x.uploadOk /\ SignLoad(r, u, x.hasData, x.mode)
  \/ \E r \in Reqs, ok \in BOOLEAN : SignUpload(r, ok)
  \/ \E r \in Reqs : SignSave(r)
  \/ Tick

SpecConc == Init /\ [][NextConc]_vars

\* ===================================================================== properties

ExecutedOrLater ==
  {"fully_executed", "active", "renewal_pending", "notice_given",
   "move_out_scheduled", "expired", "terminated"}

TerminalStatuses == {"expired", "terminated", "cancelled", "rejected"}

TermsPayloads == {p \in FieldPayloads : Has(p, "rentAmount")}

IsPrefix(s, t) == Len(s) <= Len(t) /\ SubSeq(t, 1, Len(s)) = s

\* C1 (as the specification states it): in every reachable state, isLocked
\* implies that both signature slots are populated and that the status is
\* fully_executed or a later status.
C1_LockedImpliesBothSigned ==
  lease.isLocked =>
    /\ Signed(lease, "landlord")
    /\ Signed(lease, "tenant")
    /\ lease.status \in ExecutedOrLater

\* C2 (as the specification states it): in every status, a signLease call by
\* the tenant while the landlord slot is empty fails with the ordering error and
\* leaves the lease (tenant slot, status, isLocked) unchanged.
C2_TenantFirstRefused ==
  (Found(lease) /\ ~lease.isLocked /\ ~Signed(lease, "landlord") /\ ~Signed(lease, "tenant")) =>
    /\ signLeaseResult(lease.tenant, TRUE, "draw", TRUE).res \in {"ReviewFirst", "LandlordFirst"}
    /\ signLeaseResult(lease.tenant, TRUE, "draw", TRUE).doc = lease

\* C3: in every step of the sequential system, a populated signature slot keeps
\* its contents: no operation clears it or writes it again.
C3_SlotsWriteOnce ==
  [][\A role \in Parties :
       Signed(lease, role) => lease'.signatures[role] = lease.signatures[role]]_vars

\* C3's case: both slots are populated and operations after the signing (saves
\* that activated and expired the lease, a soft delete) have run.
C3_Witness ==
  /\ Signed(lease, "landlord")
  /\ Signed(lease, "tenant")
  /\ lease.status = "expired"
  /\ lease.isDeleted

\* C4 (as the specification states it): of two signLease requests by the same
\* actor that interleave, at most one succeeds.
C4_OneSuccessPerActor ==
  \A r1 \in Reqs, r2 \in Reqs :
    (r1 # r2 /\ reqs[r1].by = reqs[r2].by /\ reqs[r1].res = "ok") => reqs[r2].res # "ok"

\* C5 (as the specification states it): right after a successful signLease of
\* an actor, a second signLease by the same actor fails with AlreadySigned, for
\* the landlord and for the tenant.
C5_SecondSignAlreadySigned ==
  [][\A u \in Parties :
       (~Signed(lease, RoleOf(lease, u)) /\ Signed(lease', RoleOf(lease, u)))
         => SignCheck(lease', u, TRUE) = "AlreadySigned"]_vars

\* C5 (amended): right after a successful signLease of an actor, a second
\* signLease by the same actor with signature data fails and changes nothing; the
\* failure is AlreadySigned for the landlord and AlreadyLocked ("Lease already
\* finalized") for the tenant, whose signature locks the lease.
C5_SecondSignFails ==
  [][\A u \in Parties :
       (~Signed(lease, RoleOf(lease, u)) /\ Signed(lease', RoleOf(lease, u)))
         => /\ SignCheck(lease', u, TRUE) =
                 (IF RoleOf(lease, u) = "landlord" THEN "AlreadySigned" ELSE "AlreadyLocked")
            /\ \A x \in SignInputs :
                 SignOutcome(lease', u, x.hasData, x.mode, x.uploadOk).res # "ok"
                 /\ SignOutcome(lease', u, x.hasData, x.mode, x.uploadOk).doc = lease']_vars

\* C5's case: each party has signed once, and the second call of each is refused.
C5_Witness ==
  /\ Signed(lease, "landlord")
  /\ Signed(lease, "tenant")
  /\ lease.status = "fully_executed"
  /\ SignCheck(lease, lease.tenant, TRUE) = "AlreadyLocked"

\* C6 (as the specification states it): once the status is expired, terminated,
\* cancelled or rejected, no step changes it.
C6_TerminalStatusesStay ==
  [][lease.status \in TerminalStatuses => lease'.status = lease.status]_vars

\* C7 (as the specification states it): a step that changes the status appends
\* exactly one history entry, which carries the new status; a step that does not
\* change the status leaves the history as it was.
C7_OneEntryPerStatusChange ==
  [][/\ lease'.status # lease.status
          => lease'.statusHistory = Append(lease.statusHistory, lease'.status)
     /\ lease'.status = lease.status
          => lease'.statusHistory = lease.statusHistory]_vars

\* C8: statusHistory is never empty once the lease exists, and the history
\* before a step is a prefix of the history after it.
C8_HistoryAppendOnly ==
  /\ [](lease.status # "none" => Len(lease.statusHistory) >= 1)
  /\ [][IsPrefix(lease.statusHistory, lease'.statusHistory)]_vars

\* C8's case: a history that several operations have appended to.
C8_Witness ==
  /\ Len(lease.statusHistory) = MaxHistory
  /\ lease.statusHistory[1] = "pending_request"
  /\ lease.status = "fully_executed"

\* C9 (as the specification states it): on a locked lease, updateLease by the
\* landlord and createOrUpdateDraft with new terms fail, and rentAmount,
\* startDate and endDate keep their values.
C9_LockedTermsRefused ==
  (Found(lease) /\ lease.isLocked) =>
    \A p \in TermsPayloads :
      /\ updateLeaseResult(lease.landlord, p).res # "ok"
      /\ createOrUpdateDraftResult(lease.landlord, p).res # "ok"
      /\ updateLeaseResult(lease.landlord, p).doc.rentAmount = lease.rentAmount
      /\ updateLeaseResult(lease.landlord, p).doc.startDate = lease.startDate
      /\ updateLeaseResult(lease.landlord, p).doc.endDate = lease.endDate

\* C10: a signLease whose upload fails is refused and persists nothing: the
\* lease after the call is the lease before it, whoever calls and whatever the
\* signature mode.
C10_UploadFailurePersistsNothing ==
  \A u \in Users, m \in SignModes, h \in BOOLEAN :
    /\ signLeaseResult(u, h, m, FALSE).res # "ok"
    /\ signLeaseResult(u, h, m, FALSE).doc = lease

\* C10's case: a lease on which the landlord's signLease passes every check, so
\* that the upload is attempted and its failure is the reason of the refusal.
C10_Witness ==
  /\ lease.status = "sent_to_landlord"
  /\ signLeaseResult(lease.landlord, TRUE, "draw", FALSE).res = "UploadFailed"
  /\ signLeaseResult(lease.landlord, TRUE, "draw", TRUE).res = "ok"

\* the outcome of every request the routes accept, for every user and input
AllOutcomes ==
  {createLeaseResult("tenant", ps, pr) : ps \in {"active", "inactive", "missing"}, pr \in {0, 1}}
  \cup {reviewApplicationResult(u, a) : u \in Users, a \in {"approve", "reject", "hold"}}
  \cup {createOrUpdateDraftResult(u, p) : u \in Users, p \in FieldPayloads}
  \cup {sendToTenantResult(u, m) : u \in Users, m \in BOOLEAN}
  \cup {requestChangesResult(u, c) : u \in Users, c \in BOOLEAN}
  \cup {tenantReviewLeaseResult(u, a, c, FALSE) :
          u \in Users, a \in {"approve", "request_changes", "hold"}, c \in BOOLEAN}
  \cup {sendToLandlordForSignatureResult(u, m) : u \in Users, m \in BOOLEAN}
  \cup {signLeaseResult(u, x.hasData, x.mode, x.uploadOk) : u \in Users, x \in SignInputs}
  \cup UNION {{updateLeaseResult(u, p) : p \in FieldPayloads \cup StatusPayloads(u)} : u \in Users}
  \cup {cancelLeaseResult(u) : u \in Users}
  \cup {deleteLeaseResult(u) : u \in Users}
  \cup {restoreLeaseResult(u) : u \in Users}
  \cup {scheduleMoveInInspectionResult(u, d) : u \in Users, d \in DateChoices \cup {Null}}
  \cup {conductMoveInInspectionResult(u) : u \in Users}
  \cup {giveNoticeResult(u, t, d) :
          u \in Users, t \in {"renewal", "termination", "other"}, d \in DateChoices \cup {Null}}
  \cup {respondToRenewalResult(u, a, r, d) :
          u \in Users, a \in {"accept", "decline", "hold"}, r \in {Null, 2},
          d \in DateChoices \cup {Null}}
  \cup {scheduleMoveOutInspectionResult(u, d) : u \in Users, d \in DateChoices \cup {Null}}
  \cup {processDepositReturnResult(u, r, ds) : u \in Users, r \in {0, 1}, ds \in {<<>>, <<1>>}}

\* C11: every request that is refused leaves the persisted lease as it was; a
\* sendToTenant refused for missing fields does not persist the resolutions it
\* made before the validation.
C11_RefusalPersistsNothing ==
  \A r \in AllOutcomes : r.res # "ok" => r.doc = lease

\* C11's case: a lease with an open change request and a missing required
\* field, for which the landlord's sendToTenant is refused after it resolved the
\* entry in memory.
C11_Witness ==
  /\ lease.status = "changes_requested"
  /\ \E i \in 1..Len(lease.requestedChanges) : ~lease.requestedChanges[i]
  /\ sendToTenantResult(lease.landlord, FALSE).res = "MissingFields"

\* C12: under createLease, cancelLease, deleteLease and restoreLease, at most
\* one lease of the pair is neither deleted nor in a terminal status, and
\* createLease is refused while such a lease exists or when the property is not
\* active.
C12_OneOpenLeasePerPair ==
  /\ Cardinality({i \in 1..Len(PairLeases) :
                    /\ PairLeases[i].status \notin TerminalStatuses \cup {"none"}
                    /\ ~PairLeases[i].isDeleted}) <= 1
  /\ \A ps \in {"active", "inactive", "missing"}, pr \in {0, 1} :
       (ps # "active"
        \/ \E i \in 1..Len(PairLeases) :
             /\ PairLeases[i].status \notin TerminalStatuses \cup {"none"}
             /\ ~PairLeases[i].isDeleted)
         => createLeaseResult("tenant", ps, pr).res # "ok"

\* C12's case: the pair has an open request, a cancelled lease that was deleted
\* and restored or left, and a cancelled lease that is deleted.
C12_Witness ==
  /\ Len(pair) = 2
  /\ lease.status = "pending_request" /\ ~lease.isDeleted
  /\ \E i \in 1..2 : pair[i].status = "cancelled" /\ pair[i].isDeleted
  /\ \E i \in 1..2 : pair[i].status = "cancelled" /\ ~pair[i].isDeleted
  /\ createLeaseResult("tenant", "active", 1).res = "Duplicate"

\* C13 (as the specification states it): every step that takes a lease into
\* status sent_to_tenant leaves it with startDate and endDate set, rentAmount
\* greater than 0 and securityDeposit set.
C13_SentToTenantHasTerms ==
  [][(lease.status # "sent_to_tenant" /\ lease'.status = "sent_to_tenant")
       => ~MissingFields(lease')]_vars

\* C14 (as the specification states it): every step from changes_requested to
\* draft leaves no RequestedChanges entry unresolved.
C14_DraftAfterChangesResolved ==
  lease.status = "changes_requested" =>
    \A r \in {createOrUpdateDraftResult(u, p) : u \in Users, p \in FieldPayloads}
             \cup {updateLeaseResult(u, [status |-> "draft"]) : u \in Users} :
      (r.res = "ok" /\ r.doc.status = "draft")
        => \A i \in 1..Len(r.doc.requestedChanges) : r.doc.requestedChanges[i]

C16_CancelExactlyWhenCancellable ==
  Found(lease) =>
    \A u \in {lease.landlord, lease.tenant} :
      /\ (cancelLeaseResult(u).res = "ok") <=>
           lease.status \in Cancellable \cup {"sent_to_landlord", "signed_by_landlord"}
      /\ cancelLeaseResult(u).res # "ok" => cancelLeaseResult(u).doc = lease

\* C17 (as the specification states it): cancelLease on a cancellable lease
\* whose depositStatus is paid succeeds and persists status cancelled,
\* depositStatus pending_refund and exactly one new ledger entry of type return
\* for the securityDeposit amount, all stored values within the schema enums.
C17_CancelPaidRefunds ==
  (Found(lease) /\ lease.status \in Cancellable /\ lease.depositStatus = "paid") =>
    \A u \in {lease.landlord, lease.tenant} :
      LET r == cancelLeaseResult(u)
          n == Len(lease.depositTransactions)
      IN /\ r.res = "ok"
         /\ r.doc.status = "cancelled"
         /\ r.doc.depositStatus = "pending_refund"
         /\ Len(r.doc.depositTransactions) = n + 1
         /\ r.doc.depositTransactions[n + 1] =
              [amount |-> lease.securityDeposit, type |-> "return"]
         /\ Valid(r.doc)

\* C18 (as the specification states it): the status changes from
\* fully_executed to active only in a step after which both
\* moveIn.signedByLandlord and moveIn.signedByTenant are set; a
\* conductMoveInInspection that leaves only one of them set leaves the status
\* fully_executed, also when the save runs after moveInDate has passed.
C18_ActiveNeedsBothInspectionSignatures ==
  /\ [][(lease.status = "fully_executed" /\ lease'.status = "active")
          => (lease'.moveIn.signedByLandlord /\ lease'.moveIn.signedByTenant)]_vars
  /\ [](\A u \in Users :
          LET r == conductMoveInInspectionResult(u)
          IN (r.res = "ok"
              /\ ~(r.doc.moveIn.signedByLandlord /\ r.doc.moveIn.signedByTenant))
             => r.doc.status = "fully_executed")

PastEnd(d) ==
  /\ Found(d)
  /\ d.status \in {"active", "fully_executed"}
  /\ d.endDate # Null
  /\ d.endDate < now

\* C19 (as the specification states it): every operation that loads a lease
\* whose status is active or fully_executed and whose endDate is earlier than
\* now returns it (getLeaseById, getMyLeases) or persists it (the writes) with
\* status expired.
C19_LoadedPastEndIsExpired ==
  /\ [](\A u \in Users :
          /\ (PastEnd(lease) /\ getLeaseByIdResult(u).res = "ok")
               => getLeaseByIdResult(u).doc.status = "expired"
          /\ \A i \in 1..Len(getMyLeasesResult(u)) :
               PastEnd(getMyLeasesResult(u)[i]) => getMyLeasesResult(u)[i].status = "expired")
  /\ [][(PastEnd(lease) /\ lease' # lease /\ now' = now) => lease'.status = "expired"]_vars

\* C20 (as the specification states it): applying the pre-save hook twice at
\* the same time gives the same status, notices and renewal sub-status as
\* applying it once, for every lease state.
C20_PreSaveIdempotent ==
  /\ PreSave(PreSave(lease)).status = PreSave(lease).status
  /\ PreSave(PreSave(lease)).notices = PreSave(lease).notices
  /\ PreSave(PreSave(lease)).renewal = PreSave(lease).renewal

\* C21: on an active lease whose endDate has passed, the pre-save hook run
\* once and run twice both give status expired, and the two runs together add
\* at most one statusHistory entry.
C21_ExpiryTwiceSame ==
  (lease.status = "active" /\ lease.endDate # Null /\ now > lease.endDate) =>
    /\ PreSave(lease).status = "expired"
    /\ PreSave(PreSave(lease)).status = "expired"
    /\ Len(PreSave(PreSave(lease)).statusHistory) <= Len(lease.statusHistory) + 1

\* C21's case: an active lease past its endDate, not yet saved since
C21_Witness ==
  /\ Found(lease)
  /\ lease.status = "active"
  /\ lease.endDate # Null
  /\ now > lease.endDate

AutoNotices(d) ==
  {i \in 1..Len(d.notices) : d.notices[i].reason = "Lease renewal notice"}

C23_NoticeStatusEffects ==
  \A u \in Users, d \in DateChoices :
    /\ giveNoticeResult(u, "termination", d).res = "ok"
         => giveNoticeResult(u, "termination", d).doc.status = "notice_given"
    /\ giveNoticeResult(u, "renewal", d).res = "ok"
         => /\ giveNoticeResult(u, "renewal", d).doc.renewal = "offered"
            /\ giveNoticeResult(u, "renewal", d).doc.status = lease.status

\* C24 (as the specification states it): after a successful respondToRenewal
\* with action accept and new values supplied, the status is active, renewal
\* is accepted, rentAmount and endDate carry the new values, one addendum is
\* appended and the originating renewal notice is acknowledged.
C24_AcceptRenewalEffects ==
  \A u \in Users, d \in DateChoices :
    LET r == respondToRenewalResult(u, "accept", 2, d)
    IN r.res = "ok" =>
         /\ r.doc.status = "active"
         /\ r.doc.renewal = "accepted"
         /\ r.doc.rentAmount = 2
         /\ r.doc.endDate = d
         /\ r.doc.addenda = lease.addenda + 1
         /\ r.doc.notices = Acknowledge(lease.notices)

RenewalResponses ==
  {respondToRenewalResult(u, a, r, d) :
     u \in Users, a \in {"accept", "decline", "hold"}, r \in {Null, 2},
     d \in DateChoices \cup {Null}}

\* C25: respondToRenewal succeeds only for the tenant and only while renewal
\* is offered, and it leaves renewal accepted or declined; with renewal not
\* offered every respondToRenewal fails and leaves the lease unchanged; and
\* renewal becomes offered only by a save that appends a given renewal notice.
C25_OfferAnsweredOnce ==
  /\ \A u \in Users, a \in {"accept", "decline", "hold"}, r \in {Null, 2},
        d \in DateChoices \cup {Null} :
       respondToRenewalResult(u, a, r, d).res = "ok" =>
         /\ u = lease.tenant
         /\ lease.renewal = "offered"
         /\ respondToRenewalResult(u, a, r, d).doc.renewal \in {"accepted", "declined"}
  /\ lease.renewal # "offered" =>
       \A x \in RenewalResponses : x.res # "ok" /\ x.doc = lease
  /\ \A x \in AllOutcomes :
       (x.res = "ok" /\ x.doc.renewal = "offered" /\ lease.renewal # "offered") =>
         /\ Len(x.doc.notices) = Len(lease.notices) + 1
         /\ x.doc.notices[Len(x.doc.notices)] =
              [type |-> "renewal", reason |-> "request", acknowledged |-> FALSE]

\* C25's case: an answered offer, and a second answer of the tenant refused
C25_Witness ==
  /\ lease.renewal \in {"accepted", "declined"}
  /\ \E i \in 1..Len(lease.notices) : lease.notices[i].acknowledged
  /\ respondToRenewalResult(lease.tenant, "accept", 2, 1).res = "NotFound"

ReturnEntries(d) ==
  {i \in 1..Len(d.depositTransactions) : d.depositTransactions[i].type = "return"}

\* C26: processDepositReturn succeeds only for the landlord of an expired or
\* terminated lease whose depositStatus is held, and leaves depositStatus
\* returned or partially_returned; a refused call leaves the ledger as it was;
\* so once a call has succeeded every further call is refused, and the ledger
\* holds the return entry of one call only.
C26_DepositReturnedOnce ==
  /\ \A u \in Users, x \in ReturnInputs :
       LET r == processDepositReturnResult(u, x.returnedAmount, x.deductions)
       IN /\ r.res = "ok" =>
               /\ u = lease.landlord
               /\ lease.status \in {"expired", "terminated"}
               /\ lease.depositStatus = "held"
               /\ r.doc.depositStatus \in {"returned", "partially_returned"}
          /\ r.res # "ok" => r.doc.depositTransactions = lease.depositTransactions
          /\ lease.depositStatus \in {"returned", "partially_returned"} => r.res # "ok"
  /\ Cardinality(ReturnEntries(lease)) <= 1

\* C26's case: a deposit that has been returned, and a second call refused
C26_Witness ==
  /\ lease.depositStatus \in {"returned", "partially_returned"}
  /\ Cardinality(ReturnEntries(lease)) = 1
  /\ processDepositReturnResult(lease.landlord, 5, <<>>).res = "NotFound"

ExpectedReturn(d, deds) == d.securityDeposit - Sum(deds)

\* C27 (as the specification states it): on a held deposit of an expired
\* lease, the landlord's processDepositReturn with a positive returnedAmount
\* equal to securityDeposit minus the deductions succeeds with depositStatus
\* returned, also when the deductions are not zero; with a returnedAmount more
\* than 1 away from that it fails with the amount-mismatch error.
C27_ExpectedReturnIsReturned ==
  DepositHeld(lease, lease.landlord) =>
    \A x \in ReturnInputs :
      LET r == processDepositReturnResult(lease.landlord, x.returnedAmount, x.deductions)
      IN /\ (x.returnedAmount > 0 /\ x.returnedAmount = ExpectedReturn(lease, x.deductions))
              => (r.res = "ok" /\ r.doc.depositStatus = "returned")
         /\ (x.returnedAmount > 0
             /\ Abs(x.returnedAmount - ExpectedReturn(lease, x.deductions)) > 1)
              => r.res = "AmountMismatch"

\* C28 (as the specification states it): after every successful
\* processDepositReturn the amounts of the deduction entries plus the amount of
\* the return entry do not exceed the securityDeposit.
C28_LedgerWithinDeposit ==
  \A u \in Users, x \in ReturnInputs :
    LET r == processDepositReturnResult(u, x.returnedAmount, x.deductions)
        paid == {i \in 1..Len(r.doc.depositTransactions) :
                   r.doc.depositTransactions[i].type \in {"deduction", "return"}}
    IN r.res = "ok" =>
         Sum([i \in 1..Len(r.doc.depositTransactions) |->
                IF i \in paid THEN r.doc.depositTransactions[i].amount ELSE 0])
           <= lease.securityDeposit

\* C29 (as the specification states it): of the processDepositReturn requests
\* interleaved on one held lease at most one succeeds, and the ledger receives
\* the return entry of one call only.
C29_OneInterleavedReturn ==
  /\ Cardinality({r \in Reqs : reqs[r].mode = "deposit" /\ reqs[r].res = "ok"}) <= 1
  /\ Cardinality(ReturnEntries(lease)) <= 1

\* the outcomes of every request that addresses the lease, restoreLease apart
OutcomesButRestore ==
  {reviewApplicationResult(u, a) : u \in Users, a \in {"approve", "reject", "hold"}}
  \cup {createOrUpdateDraftResult(u, p) : u \in Users, p \in FieldPayloads}
  \cup {sendToTenantResult(u, m) : u \in Users, m \in BOOLEAN}
  \cup {requestChangesResult(u, c) : u \in Users, c \in BOOLEAN}
  \cup {tenantReviewLeaseResult(u, a, c, FALSE) :
          u \in Users, a \in {"approve", "request_changes", "hold"}, c \in BOOLEAN}
  \cup {sendToLandlordForSignatureResult(u, m) : u \in Users, m \in BOOLEAN}
  \cup {signLeaseResult(u, x.hasData, x.mode, x.uploadOk) : u \in Users, x \in SignInputs}
  \cup UNION {{updateLeaseResult(u, p) :
                 p \in FieldPayloads \cup DepositPayloads \cup StatusPayloads(u)} : u \in Users}
  \cup {cancelLeaseResult(u) : u \in Users}
  \cup {deleteLeaseResult(u) : u \in Users}
  \cup {scheduleMoveInInspectionResult(u, d) : u \in Users, d \in DateChoices \cup {Null}}
  \cup {conductMoveInInspectionResult(u) : u \in Users}
  \cup {giveNoticeResult(u, t, d) :
          u \in Users, t \in {"renewal", "termination", "other"}, d \in DateChoices \cup {Null}}
  \cup {respondToRenewalResult(u, a, r, d) :
          u \in Users, a \in {"accept", "decline", "hold"}, r \in {Null, 2},
          d \in DateChoices \cup {Null}}
  \cup {scheduleMoveOutInspectionResult(u, d) : u \in Users, d \in DateChoices \cup {Null}}
  \cup {processDepositReturnResult(u, x.returnedAmount, x.deductions) :
          u \in Users, x \in ReturnInputs}
  \cup {getLeaseByIdResult(u) : u \in Users}

\* C30: while the lease has isDeleted = true, every request other than
\* restoreLease fails and leaves it unchanged, getMyLeases lists nothing and
\* getLeaseStats counts nothing.
C30_TrashIsUntouched ==
  (lease.status # "none" /\ lease.isDeleted) =>
    /\ \A r \in OutcomesButRestore : r.res # "ok" /\ r.doc = lease
    /\ \A u \in Users :
         /\ getMyLeasesResult(u) = <<>>
         /\ getLeaseStatsResult(u) = [asLandlord |-> 0, asTenant |-> 0]

\* C30's case: a lease in the trash that processDepositReturn, updateLease and
\* signLease would accept if it were not deleted
C30_Witness ==
  /\ lease.isDeleted
  /\ lease.status = "expired"
  /\ lease.depositStatus = "held"
  /\ ~Signed(lease, "landlord")

\* C31: a lease has a landlord, a tenant and a property from createLease on,
\* and every later step leaves the three references as they are.
C31_PartiesSetOnce ==
  /\ [](lease.status # "none" =>
          (lease.landlord # "none" /\ lease.tenant # "none" /\ lease.property # "none"))
  /\ [][lease.status # "none" =>
          /\ lease'.landlord = lease.landlord
          /\ lease'.tenant = lease.tenant
          /\ lease'.property = lease.property]_vars

\* C31's case: a lease that went from the application through signing, a
\* tenancy and the trash
C31_Witness ==
  /\ lease.status = "expired"
  /\ lease.isDeleted
  /\ Len(lease.statusHistory) >= 3
  /\ lease.landlord = "landlord"
  /\ lease.tenant = "tenant"
  /\ lease.property = "P"

\* the bodies of updateLease requests: fields, and the statuses of either table
UpdatePayloads ==
  FieldPayloads \cup StatusPayloads("landlord") \cup StatusPayloads("tenant")

\* the outcomes of every request of user u that addresses the lease
OutcomesOf(u) ==
  {reviewApplicationResult(u, a) : a \in {"approve", "reject", "hold"}}
  \cup {createOrUpdateDraftResult(u, p) : p \in FieldPayloads}
  \cup {sendToTenantResult(u, m) : m \in BOOLEAN}
  \cup {requestChangesResult(u, c) : c \in BOOLEAN}
  \cup {tenantReviewLeaseResult(u, a, c, FALSE) :
          a \in {"approve", "request_changes", "hold"}, c \in BOOLEAN}
  \cup {sendToLandlordForSignatureResult(u, m) : m \in BOOLEAN}
  \cup {signLeaseResult(u, x.hasData, x.mode, x.uploadOk) : x \in SignInputs}
  \cup {updateLeaseResult(u, p) : p \in UpdatePayloads}
  \cup {cancelLeaseResult(u), deleteLeaseResult(u), restoreLeaseResult(u),
        conductMoveInInspectionResult(u), getLeaseByIdResult(u)}
  \cup {scheduleMoveInInspectionResult(u, d) : d \in DateChoices \cup {Null}}
  \cup {giveNoticeResult(u, t, d) :
          t \in {"renewal", "termination", "other"}, d \in DateChoices \cup {Null}}
  \cup {respondToRenewalResult(u, a, r, d) :
          a \in {"accept", "decline", "hold"}, r \in {Null, 2}, d \in DateChoices \cup {Null}}
  \cup {scheduleMoveOutInspectionResult(u, d) : d \in DateChoices \cup {Null}}
  \cup {processDepositReturnResult(u, x.returnedAmount, x.deductions) : x \in ReturnInputs}

\* a request that fails and leaves the lease as it is
Refused(r) == r.res # "ok" /\ r.doc = lease

\* every request of user u to a handler of the landlord is refused
LandlordOnlyRefused(u) ==
  /\ \A a \in {"approve", "reject", "hold"} : Refused(reviewApplicationResult(u, a))
  /\ \A p \in FieldPayloads : Refused(createOrUpdateDraftResult(u, p))
  /\ \A m \in BOOLEAN : Refused(sendToTenantResult(u, m))
  /\ \A x \in ReturnInputs :
       Refused(processDepositReturnResult(u, x.returnedAmount, x.deductions))

\* every request of user u to a handler of the tenant is refused
TenantOnlyRefused(u) ==
  /\ \A a \in {"approve", "request_changes", "hold"}, c \in BOOLEAN :
       Refused(tenantReviewLeaseResult(u, a, c, FALSE))
  /\ \A c \in BOOLEAN : Refused(requestChangesResult(u, c))
  /\ \A m \in BOOLEAN : Refused(sendToLandlordForSignatureResult(u, m))
  /\ \A a \in {"accept", "decline", "hold"}, r \in {Null, 2}, d \in DateChoices \cup {Null} :
       Refused(respondToRenewalResult(u, a, r, d))

\* every request of user u to a handler open to both parties is refused
SharedRefused(u) ==
  /\ \A x \in SignInputs : Refused(signLeaseResult(u, x.hasData, x.mode, x.uploadOk))
  /\ \A p \in UpdatePayloads : Refused(updateLeaseResult(u, p))
  /\ Refused(cancelLeaseResult(u))
  /\ Refused(deleteLeaseResult(u))
  /\ Refused(restoreLeaseResult(u))
  /\ Refused(conductMoveInInspectionResult(u))
  /\ Refused(getLeaseByIdResult(u))
  /\ \A d \in DateChoices \cup {Null} :
       /\ Refused(scheduleMoveInInspectionResult(u, d))
       /\ Refused(scheduleMoveOutInspectionResult(u, d))
       /\ \A t \in {"renewal", "termination", "other"} : Refused(giveNoticeResult(u, t, d))

C33_RentKeptFromApplication ==
  lease.status # "none" =>
    \A u \in Parties, price \in PriceChoices :
      /\ approveRequestResult(u, price).doc.rentAmount = lease.rentAmount
      /\ \A a \in {"approve", "reject"} :
           reviewApplicationResult(u, a).doc.rentAmount = lease.rentAmount

\* C34: a lease in status signed_by_landlord carries the landlord's signature:
\* the status is entered by the landlord's signLease only, never by a bare
\* status update.
C34_SignedByLandlordHasSignature ==
  /\ lease.status = "signed_by_landlord" => Signed(lease, "landlord")
  /\ \A u \in Parties : \A r \in OutcomesOf(u) :
       (r.res = "ok" /\ r.doc.status = "signed_by_landlord") => Signed(r.doc, "landlord")

\* C35: a lease in status move_out_scheduled has a scheduled move-out
\* inspection: the transition from notice_given is refused while
\* inspections.moveOut.scheduledAt is unset.
C35_MoveOutScheduledHasDate ==
  lease.status = "move_out_scheduled" => lease.moveOut.scheduledAt # Null

\* C36: isLocked is true exactly when the tenant signature slot is populated.
C36_LockedIffTenantSigned ==
  lease.status # "none" => (lease.isLocked <=> Signed(lease, "tenant"))

\* C36's case: both parties have signed, the tenant last, and the lease is
\* locked and executed
C36_Witness ==
  /\ lease.status = "fully_executed"
  /\ Signed(lease, "landlord")
  /\ Signed(lease, "tenant")
  /\ lease.isLocked

\* C37: a lease in status move_out_scheduled keeps that status under every
\* request that succeeds, and no request leaves a lease in status terminated.
C37_MoveOutScheduledIsFinal ==
  /\ lease.status # "terminated"
  /\ \A u \in Parties : \A r \in OutcomesOf(u) :
       /\ r.doc.status # "terminated"
       /\ (lease.status = "move_out_scheduled" /\ r.res = "ok")
            => r.doc.status = "move_out_scheduled"

\* C38: under the lease handlers alone depositStatus is pending and the ledger
\* is empty in every state, so cancelLease never takes its refund branch, and
\* processDepositReturn is refused.
C38_DepositStaysPending ==
  lease.status # "none" =>
    /\ lease.depositStatus = "pending"
    /\ lease.depositTransactions = <<>>
    /\ \A u \in Parties :
         /\ cancelLeaseResult(u).doc.depositStatus = "pending"
         /\ cancelLeaseResult(u).doc.depositTransactions = <<>>
    /\ \A u \in Parties, x \in ReturnInputs :
         processDepositReturnResult(u, x.returnedAmount, x.deductions).res # "ok"

\* C38's case: an expired lease with a deposit of one month's rent whose
\* return is refused
C38_Witness ==
  /\ lease.status = "expired"
  /\ lease.securityDeposit > 0
  /\ lease.depositStatus = "pending"
  /\ processDepositReturnResult(lease.landlord, lease.securityDeposit, <<>>).res = "NotFound"

Deletable == {"draft", "cancelled", "expired", "rejected"}

\* C39: a lease in the trash has status draft, cancelled, expired or rejected;
\* deleteLease succeeds in these statuses only, no step changes the status of
\* a lease in the trash, and restoreLease gives back the lease that deleteLease
\* took, with isDeleted false and the status it had.
C39_TrashKeepsStatus ==
  /\ [](lease.isDeleted => lease.status \in Deletable)
  /\ [](\A u \in Users : deleteLeaseResult(u).res = "ok" =>
          /\ lease.status \in Deletable
          /\ deleteLeaseResult(u).doc = [lease EXCEPT !.isDeleted = TRUE])
  /\ [](lease.isDeleted =>
          \A u \in Parties : \A r \in OutcomesOf(u) :
            r.res = "ok" => r.doc = [lease EXCEPT !.isDeleted = FALSE])
  /\ [][lease.isDeleted => lease'.status = lease.status]_vars

\* C39's case: an expired lease in the trash that its tenant can restore
C39_Witness ==
  /\ lease.isDeleted
  /\ lease.status = "expired"
  /\ restoreLeaseResult(lease.tenant).res = "ok"
  /\ restoreLeaseResult(lease.tenant).doc.status = "expired"
  /\ ~restoreLeaseResult(lease.tenant).doc.isDeleted

====
